---- MODULE Spec2Model ----
(***************************************************************************)
(* A model of src/main.py: the Vector algebra, the Universe (three bodies, *)
(* update and scene) and the driver (loop, run, main).                     *)
(*                                                                         *)
(* Numbers.  The program computes in binary floating point.  Here a float  *)
(* is an integer and every operation that rounds in the program (a         *)
(* product with the time step, a quotient, a square root) rounds to the    *)
(* nearest integer, so that the operations keep the order in which the     *)
(* program applies them.  A time step is the rational n/d, written         *)
(* [n |-> n, d |-> d].                                                     *)
(*                                                                         *)
(* Objects.  A Python name holds a reference.  A Vector lives in the heap  *)
(* of its Universe at an address; the fields of the Universe, the entries  *)
(* of its trails and the centre of a Circle hold addresses.                *)
(***************************************************************************)
EXTENDS Integers, Sequences, FiniteSets, TLC

VARIABLES
    universe,   \* the Universe object (the module's global `universe`)
    twin,       \* a second Universe object, given the same update calls
    scene,      \* the Scene last returned by universe.scene (<<>> before the first)
    sceneAt,    \* history: what that Scene showed, and the state it was built in
    stable,     \* history: the body positions when the last update call returned
    dts,        \* history: the delta_t of every update call made on universe, in order
    histB,      \* history: blue_p before each update call, in order
    histW,      \* history: white_p before each update call, in order
    mainpc,     \* main(): position of the main thread
    pc,         \* run()/loop(): position of the background thread
    frame_num,  \* run(): its local frame_num
    frames,     \* history: the number of loop() calls that rendered and updated
    canvas      \* the Canvas: its origin o, its items, and whether Tk must repaint

vars == <<universe, twin, scene, sceneAt, stable, dts, histB, histW,
          mainpc, pc, frame_num, frames, canvas>>

---------------------------------------------------------------------------
(* Bounds of the model *)

\* The most update calls one behaviour of Spec makes.
MaxSteps == 4

\* Body coordinates stay within -MaxCoord..MaxCoord.
MaxCoord == 428

---------------------------------------------------------------------------
(* Program constants *)

\* DEFAULT_DELTA_T: float = 0.05
DEFAULT_DELTA_T == [n |-> 1, d |-> 20]

MAX_DURATION == 120

\* MAX_FRAMES: int = int(MAX_DURATION / DEFAULT_DELTA_T)
MAX_FRAMES == (MAX_DURATION * DEFAULT_DELTA_T.d) \div DEFAULT_DELTA_T.n

G == 1

---------------------------------------------------------------------------
(* Arithmetic *)

\* a / b for b > 0, rounded to the nearest integer.
RDiv(a, b) ==
    LET q == a \div b
        r == a % b
    IN  IF r >= b - r THEN q + 1 ELSE q

RECURSIVE SqrtIter(_, _, _)
\* The largest r in lo..hi-1 with r*r <= s, given lo*lo <= s < hi*hi.
SqrtIter(s, lo, hi) ==
    IF hi - lo <= 1 THEN lo
    ELSE LET mid == (lo + hi) \div 2
         IN  IF mid * mid <= s THEN SqrtIter(s, mid, hi) ELSE SqrtIter(s, lo, mid)

\* s ** 0.5 for s >= 0, rounded to the nearest integer.
Sqrt(s) ==
    LET r == SqrtIter(s, 0, 46341)
    IN  IF s - r * r > r THEN r + 1 ELSE r

---------------------------------------------------------------------------
(* class Vector *)

Vector(x, y) == [x |-> x, y |-> y]

\* Vector.__add__
VAdd(a, b) == Vector(a.x + b.x, a.y + b.y)

\* Vector.__sub__
VSub(a, b) == Vector(a.x - b.x, a.y - b.y)

\* Vector.__mul__ and __rmul__: the scalar c is the rational c.n / c.d.
VMul(v, c) == Vector(RDiv(c.n * v.x, c.d), RDiv(c.n * v.y, c.d))

\* Vector.__truediv__, for d > 0 (d = 0 raises ZeroDivisionError).
VTrueDiv(v, d) == Vector(RDiv(v.x, d), RDiv(v.y, d))

\* Vector.__abs__
VAbs(v) == Sqrt(v.x * v.x + v.y * v.y)

\* An integer as a scalar.
Int2Q(k) == [n |-> k, d |-> 1]

---------------------------------------------------------------------------
(* Shapes and Scene *)

\* Circle(o, r): o is a reference to a Vector.
Circle(o, r) == [kind |-> "Circle", o |-> o, r |-> r]

\* Curve(points): a tuple of references to Vectors.
Curve(points) == [kind |-> "Curve", points |-> points]

\* Circle.bbox and BBox.as_tuple, translated by the canvas origin d:
\* (d + c.bbox).as_tuple for a Circle of centre value o and radius r.
BBoxTuple(d, o, r) == <<d.x + o.x - r, d.y + o.y - r, d.x + o.x + r, d.y + o.y + r>>

---------------------------------------------------------------------------
(* class Universe *)

\* The value of the Vector that reference a of Universe un points to.
Val(un, a) == un.heap[a]

\* The values of a trail's entries, oldest first.
TrailVals(un, trail) == [i \in 1..Len(trail) |-> un.heap[trail[i]]]

\* `name = Vector(...)`: a new Vector object, bound to field f.
Bind(un, f, v) ==
    [un EXCEPT !.heap = (un.next :> v) @@ @, ![f] = un.next, !.next = @ + 1]

\* The objects a Universe still refers to, and those in `roots` (references
\* held outside it); every other object is freed.
Collect(un, roots) ==
    LET live == {un.yellow_p, un.blue_p, un.blue_v, un.white_p, un.white_v}
                \cup {un.blue_trail[i] : i \in 1..Len(un.blue_trail)}
                \cup {un.white_trail[i] : i \in 1..Len(un.white_trail)}
                \cup roots
    IN  [un EXCEPT !.heap = [a \in live \cap DOMAIN un.heap |-> un.heap[a]]]

\* Universe.__init__
NewUniverse ==
    LET yp == Vector(0, 0)
        bp == Vector(200, 0)
        wp == Vector(200, 30)
        ym == 5000000
        bv == Vector(0, 0 - Sqrt(RDiv(G * ym, VAbs(VSub(bp, yp)))))
        wv == Vector(0, 0 - Sqrt(RDiv(G * ym, VAbs(VSub(wp, yp)))))
    IN  [yellow_r |-> 50, yellow_m |-> ym, yellow_p |-> 1,
         blue_r |-> 15, blue_m |-> 3000, blue_p |-> 2, blue_v |-> 3,
         blue_trail |-> <<>>,
         white_r |-> 5, white_m |-> 100, white_p |-> 4, white_v |-> 5,
         white_trail |-> <<>>,
         heap |-> (1 :> yp) @@ (2 :> bp) @@ (3 :> bv) @@ (4 :> wp) @@ (5 :> wv),
         next |-> 6,
         err |-> "none"]

\* Universe.scene, with the trail Curves the source has commented out.
SceneWithTrails(un) ==
    << Circle(un.yellow_p, un.yellow_r),
       Circle(un.blue_p, un.blue_r),
       Curve(un.blue_trail),
       Circle(un.white_p, un.white_r),
       Curve(un.white_trail) >>

\* Universe.scene
SceneOf(un) ==
    << Circle(un.yellow_p, un.yellow_r),
       Circle(un.blue_p, un.blue_r),
       Circle(un.white_p, un.white_r) >>

\* What a Scene shows: its shapes with every reference replaced by the value
\* it points to in heap h.
SceneVals(sc, h) ==
    [i \in 1..Len(sc) |->
        IF sc[i].kind = "Circle"
        THEN [kind |-> "Circle", o |-> h[sc[i].o], r |-> sc[i].r]
        ELSE [kind |-> "Curve",
              points |-> [j \in 1..Len(sc[i].points) |-> h[sc[i].points[j]]]]]

\* The references a Scene holds.
SceneRoots(sc) ==
    UNION {IF sc[i].kind = "Circle" THEN {sc[i].o}
           ELSE {sc[i].points[j] : j \in 1..Len(sc[i].points)} : i \in 1..Len(sc)}

\* The trail loop with `if` for `while`: at most one pop(0).
EvictOnce(trail, dt) ==
    IF Len(trail) * dt.n > 2 * dt.d THEN Tail(trail) ELSE trail

RECURSIVE EvictNewest(_, _)
\* The trail loop with pop() for pop(0): the newest entry goes.
EvictNewest(trail, dt) ==
    IF Len(trail) * dt.n > 2 * dt.d
    THEN EvictNewest(SubSeq(trail, 1, Len(trail) - 1), dt)
    ELSE trail

RECURSIVE Evict(_, _)
\* while len(trail) > 2.0 / delta_t: trail.pop(0)
Evict(trail, dt) ==
    IF Len(trail) * dt.n > 2 * dt.d THEN Evict(Tail(trail), dt) ELSE trail

\* G * m * d / (abs(d) ** 3) * delta_t, for abs(d) > 0.
GravTerm(m, d, dt) ==
    LET a == VAbs(d)
    IN  VMul(VTrueDiv(VMul(d, Int2Q(G * m)), a * a * a), dt)

\* update, lines 173-175
UpdBlueTrail(un, dt) ==
    [un EXCEPT !.blue_trail = Evict(Append(@, un.blue_p), dt)]

\* The position step on a Vector that is changed in place.
UpdBluePInPlace(un, dt) ==
    [un EXCEPT !.heap[un.blue_p] =
        VAdd(Val(un, un.blue_p), VMul(Val(un, un.blue_v), dt))]

\* update, line 177
UpdBlueP(un, dt) ==
    Bind(un, "blue_p", VAdd(Val(un, un.blue_p), VMul(Val(un, un.blue_v), dt)))

\* The velocity step with satellite-2 attracting satellite-1 as well.
UpdBlueVBothWays(un, dt) ==
    LET d  == VSub(Val(un, un.blue_p), Val(un, un.yellow_p))
        dw == VSub(Val(un, un.blue_p), Val(un, un.white_p))
    IN  IF VAbs(d) = 0 \/ VAbs(dw) = 0
        THEN [un EXCEPT !.err = "ZeroDivisionError"]
        ELSE Bind(un, "blue_v",
                  VSub(VSub(Val(un, un.blue_v), GravTerm(un.yellow_m, d, dt)),
                       GravTerm(un.white_m, dw, dt)))

\* update, lines 178-179
UpdBlueV(un, dt) ==
    LET d == VSub(Val(un, un.blue_p), Val(un, un.yellow_p))
    IN  IF VAbs(d) = 0
        THEN [un EXCEPT !.err = "ZeroDivisionError"]
        ELSE Bind(un, "blue_v",
                  VSub(Val(un, un.blue_v), GravTerm(un.yellow_m, d, dt)))

\* update, lines 181-183
UpdWhiteTrail(un, dt) ==
    [un EXCEPT !.white_trail = Evict(Append(@, un.white_p), dt)]

\* update, line 185
UpdWhiteP(un, dt) ==
    Bind(un, "white_p", VAdd(Val(un, un.white_p), VMul(Val(un, un.white_v), dt)))

\* update, lines 186-192
UpdWhiteV(un, dt) ==
    LET dyellow == VSub(Val(un, un.white_p), Val(un, un.yellow_p))
        dblue   == VSub(Val(un, un.white_p), Val(un, un.blue_p))
    IN  IF VAbs(dyellow) = 0 \/ VAbs(dblue) = 0
        THEN [un EXCEPT !.err = "ZeroDivisionError"]
        ELSE Bind(un, "white_v",
                  VSub(VSub(Val(un, un.white_v), GravTerm(un.yellow_m, dyellow, dt)),
                       GravTerm(un.blue_m, dblue, dt)))

\* update with each velocity step ahead of its position step.
UpdateVelocityFirst(un, dt) ==
    LET s1 == UpdBlueTrail(un, dt)
        s2 == UpdBlueV(s1, dt)
    IN  IF s2.err # "none" THEN s2
        ELSE UpdWhiteP(UpdWhiteV(UpdWhiteTrail(UpdBlueP(s2, dt), dt), dt), dt)

\* update with line 177 repeated for the anchor: yellow_p is integrated too.
UpdateMovesAnchor(un, dt) ==
    LET s0 == Bind(un, "yellow_p",
                   VAdd(Val(un, un.yellow_p), VMul(Val(un, un.blue_v), dt)))
        s3 == UpdBlueV(UpdBlueP(UpdBlueTrail(s0, dt), dt), dt)
    IN  IF s3.err # "none" THEN s3
        ELSE UpdWhiteV(UpdWhiteP(UpdWhiteTrail(s3, dt), dt), dt)

\* Universe.update: the statements in order; an exception in one ends the call
\* and leaves what the earlier ones assigned.
UpdateU(un, dt) ==
    LET s3 == UpdBlueV(UpdBlueP(UpdBlueTrail(un, dt), dt), dt)
    IN  IF s3.err # "none" THEN s3
        ELSE UpdWhiteV(UpdWhiteP(UpdWhiteTrail(s3, dt), dt), dt)

\* The body positions, by value.
Positions(un) ==
    [yellow |-> Val(un, un.yellow_p), blue |-> Val(un, un.blue_p),
     white |-> Val(un, un.white_p)]

\* Whether a position lies within the coordinates the model covers.
InBox(p) ==
    /\ p.x >= 0 - MaxCoord /\ p.x <= MaxCoord
    /\ p.y >= 0 - MaxCoord /\ p.y <= MaxCoord

\* Whether update(dt) keeps both satellites within those coordinates.
CanUpdate(un, dt) ==
    /\ InBox(VAdd(Val(un, un.blue_p), VMul(Val(un, un.blue_v), dt)))
    /\ InBox(VAdd(Val(un, un.white_p), VMul(Val(un, un.white_v), dt)))

\* `universe.f = Vector(x, y)`: a public attribute assigned after construction.
Preset(un, f, v) == Collect(Bind(un, f, v), {})

\* The Universe objects the behaviours start from: the constructed one, and
\* constructed ones with public attributes assigned.
Configs ==
    { NewUniverse,
      \* satellite-1 one default step above the anchor
      Preset(NewUniverse, "blue_p", Vector(0, 8)),
      \* satellite-2 one default step above the anchor
      Preset(NewUniverse, "white_p", Vector(0, 8)),
      \* satellite-2 where satellite-1 is, moving with it
      Preset(NewUniverse, "white_p", Vector(200, 0)),
      \* satellite-2 with another mass and velocity
      [Preset(NewUniverse, "white_v", Vector(10, -150)) EXCEPT !.white_m = 2000000],
      \* satellite-1 with another mass
      [NewUniverse EXCEPT !.blue_m = 600000] }

\* The time steps of the update calls: 0.05 (the default), 1.0 and 2.5.
DtSet == { DEFAULT_DELTA_T, [n |-> 1, d |-> 1], [n |-> 5, d |-> 2] }

---------------------------------------------------------------------------
(* class Canvas *)

\* Canvas.__init__
NewCanvas ==
    [w |-> 800, h |-> 600, o |-> Vector(800 \div 2, 600 \div 2),
     items |-> <<>>, dirty |-> FALSE]

\* Canvas.render_curve: one line per pair of consecutive points.
RenderCurve(c, points) ==
    [j \in 1..(IF Len(points) = 0 THEN 0 ELSE Len(points) - 1) |->
        [type |-> "line",
         coords |-> << c.o.x + points[j].x, c.o.y + points[j].y,
                       c.o.x + points[j + 1].x, c.o.y + points[j + 1].y >>]]

\* Canvas.render_circle
RenderCircle(c, o, r) == << [type |-> "oval", coords |-> BBoxTuple(c.o, o, r)] >>

RECURSIVE RenderFrom(_, _, _)
\* Canvas.render: the canvas items of shapes i.. of a Scene (by value), in order.
RenderFrom(c, shapes, i) ==
    IF i > Len(shapes) THEN <<>>
    ELSE (IF shapes[i].kind = "Circle"
          THEN RenderCircle(c, shapes[i].o, shapes[i].r)
          ELSE RenderCurve(c, shapes[i].points))
         \o RenderFrom(c, shapes, i + 1)

---------------------------------------------------------------------------
(* Initial states *)

InitCommon ==
    /\ scene = <<>>
    /\ sceneAt = [vals |-> <<>>, base |-> Positions(universe)]
    /\ stable = Positions(universe)
    /\ dts = <<>>
    /\ histB = <<>>
    /\ histW = <<>>
    /\ mainpc = "start"
    /\ pc = "unstarted"
    /\ frame_num = 0
    /\ frames = 0
    /\ canvas = NewCanvas

\* Two Universe objects, about to receive the same update calls.
Init ==
    /\ universe \in Configs
    /\ twin \in Configs
    /\ InitCommon

\* The program as main() starts it: universe = Universe().
InitMain ==
    /\ universe = NewUniverse
    /\ twin = NewUniverse
    /\ InitCommon

\* main() over a universe whose attributes were assigned before it starts.
InitRun ==
    /\ universe \in Configs
    /\ twin = NewUniverse
    /\ InitCommon

---------------------------------------------------------------------------
(* The Universe, called directly *)

driverVars == <<mainpc, pc, frame_num, frames, canvas>>

\* universe.update(dt), on both objects.
Update(dt) ==
    /\ universe.err = "none" /\ twin.err = "none"
    /\ Len(dts) < MaxSteps
    /\ CanUpdate(universe, dt) /\ CanUpdate(twin, dt)
    /\ universe' = Collect(UpdateU(universe, dt), SceneRoots(scene))
    /\ twin' = Collect(UpdateU(twin, dt), {})
    /\ dts' = Append(dts, dt)
    /\ histB' = Append(histB, Val(universe, universe.blue_p))
    /\ histW' = Append(histW, Val(universe, universe.white_p))
    /\ stable' = IF universe'.err = "none" THEN Positions(universe') ELSE stable
    /\ UNCHANGED <<scene, sceneAt, driverVars>>

\* universe.scene
TakeScene ==
    /\ universe.err = "none"
    /\ scene' = SceneOf(universe)
    /\ sceneAt' = [vals |-> SceneVals(scene', universe.heap), base |-> stable]
    /\ UNCHANGED <<universe, twin, stable, dts, histB, histW, driverVars>>

Next ==
    \/ \E dt \in DtSet : Update(dt)
    \/ TakeScene

Spec == Init /\ [][Next]_vars

---------------------------------------------------------------------------
(* The driver: main, run and loop *)

\* Where the background thread goes after a statement of update: on when it
\* completed, and out of loop and run, which have no handler, when it raised.
AfterStatementSwallowing(err, next) == next

AfterStatement(err, next) == IF err = "none" THEN next ELSE "crashed"

\* main: mainloop.start(), then canvas.start()
MainStartThread ==
    /\ mainpc = "start"
    /\ mainpc' = "mainloop"
    /\ pc' = "loop_o"
    /\ UNCHANGED <<universe, twin, scene, sceneAt, stable, dts, histB, histW,
                   frame_num, frames, canvas>>

\* The Tk event loop with the rendering on it: it takes universe.scene itself
\* and draws it.
TkMainloopRendersScene ==
    /\ mainpc = "mainloop"
    /\ scene' = SceneOf(universe)
    /\ sceneAt' = [vals |-> SceneVals(scene', universe.heap), base |-> stable]
    /\ canvas' = [canvas EXCEPT !.dirty = FALSE]
    /\ UNCHANGED <<universe, twin, stable, dts, histB, histW,
                   mainpc, pc, frame_num, frames>>

\* Canvas.start: root.mainloop() repaints the canvas when its items changed.
TkMainloop ==
    /\ mainpc = "mainloop"
    /\ canvas.dirty
    /\ canvas' = [canvas EXCEPT !.dirty = FALSE]
    /\ UNCHANGED <<universe, twin, scene, sceneAt, stable, dts, histB, histW,
                   mainpc, pc, frame_num, frames>>

\* loop, lines 199-201
LoopOrigin ==
    /\ pc = "loop_o"
    /\ canvas' = [canvas EXCEPT !.o =
                     Vector(canvas.w \div 2 - Val(universe, universe.blue_p).x,
                            canvas.h \div 2 - Val(universe, universe.blue_p).y)]
    /\ pc' = "scene"
    /\ UNCHANGED <<universe, twin, scene, sceneAt, stable, dts, histB, histW,
                   mainpc, frame_num, frames>>

\* loop, line 202: the argument universe.scene
LoopScene ==
    /\ pc = "scene"
    /\ scene' = SceneOf(universe)
    /\ sceneAt' = [vals |-> SceneVals(scene', universe.heap), base |-> stable]
    /\ pc' = "render"
    /\ UNCHANGED <<universe, twin, stable, dts, histB, histW,
                   mainpc, frame_num, frames, canvas>>

\* loop, line 202: canvas.render(scene)
LoopRender ==
    /\ pc = "render"
    /\ canvas' = [canvas EXCEPT
                     !.items = @ \o RenderFrom(canvas, SceneVals(scene, universe.heap), 1),
                     !.dirty = TRUE]
    /\ pc' = "upd_bt"
    /\ UNCHANGED <<universe, twin, scene, sceneAt, stable, dts, histB, histW,
                   mainpc, frame_num, frames>>

\* loop, line 203: universe.update(), lines 173-175
LoopUpdBlueTrail ==
    /\ pc = "upd_bt"
    /\ universe' = UpdBlueTrail(universe, DEFAULT_DELTA_T)
    /\ pc' = "upd_bp"
    /\ UNCHANGED <<twin, scene, sceneAt, stable, dts, histB, histW,
                   mainpc, frame_num, frames, canvas>>

\* universe.update(), line 177
LoopUpdBlueP ==
    /\ pc = "upd_bp"
    /\ CanUpdate(universe, DEFAULT_DELTA_T)
    /\ universe' = Collect(UpdBlueP(universe, DEFAULT_DELTA_T), SceneRoots(scene))
    /\ pc' = "upd_bv"
    /\ UNCHANGED <<twin, scene, sceneAt, stable, dts, histB, histW,
                   mainpc, frame_num, frames, canvas>>

\* universe.update(), lines 178-179
LoopUpdBlueV ==
    /\ pc = "upd_bv"
    /\ universe' = Collect(UpdBlueV(universe, DEFAULT_DELTA_T), SceneRoots(scene))
    /\ pc' = AfterStatement(universe'.err, "upd_wt")
    /\ UNCHANGED <<twin, scene, sceneAt, stable, dts, histB, histW,
                   mainpc, frame_num, frames, canvas>>

\* universe.update(), lines 181-183
LoopUpdWhiteTrail ==
    /\ pc = "upd_wt"
    /\ universe' = Collect(UpdWhiteTrail(universe, DEFAULT_DELTA_T), SceneRoots(scene))
    /\ pc' = "upd_wp"
    /\ UNCHANGED <<twin, scene, sceneAt, stable, dts, histB, histW,
                   mainpc, frame_num, frames, canvas>>

\* universe.update(), line 185
LoopUpdWhiteP ==
    /\ pc = "upd_wp"
    /\ universe' = Collect(UpdWhiteP(universe, DEFAULT_DELTA_T), SceneRoots(scene))
    /\ pc' = "upd_wv"
    /\ UNCHANGED <<twin, scene, sceneAt, stable, dts, histB, histW,
                   mainpc, frame_num, frames, canvas>>

\* universe.update(), lines 186-192; the call returns and the frame is done.
LoopUpdWhiteV ==
    /\ pc = "upd_wv"
    /\ universe' = Collect(UpdWhiteV(universe, DEFAULT_DELTA_T), SceneRoots(scene))
    /\ pc' = AfterStatement(universe'.err, "ret")
    /\ stable' = IF universe'.err = "none" THEN Positions(universe') ELSE stable
    /\ frames' = IF universe'.err = "none" THEN frames + 1 ELSE frames
    /\ UNCHANGED <<twin, scene, sceneAt, dts, histB, histW, mainpc, frame_num, canvas>>

\* loop, line 204, and the test of run's while, line 209
LoopReturn ==
    /\ pc = "ret"
    /\ pc' = IF frame_num < MAX_FRAMES THEN "inc" ELSE "done"
    /\ UNCHANGED <<universe, twin, scene, sceneAt, stable, dts, histB, histW,
                   mainpc, frame_num, frames, canvas>>

\* run, lines 210-211: frame_num += 1; sleep(delta_t)
RunIncrement ==
    /\ pc = "inc"
    /\ frame_num' = frame_num + 1
    /\ pc' = "clear"
    /\ UNCHANGED <<universe, twin, scene, sceneAt, stable, dts, histB, histW,
                   mainpc, frames, canvas>>

\* run, line 212: canvas.clear()
RunClear ==
    /\ pc = "clear"
    /\ canvas' = [canvas EXCEPT !.items = <<>>, !.dirty = TRUE]
    /\ pc' = "loop_o"
    /\ UNCHANGED <<universe, twin, scene, sceneAt, stable, dts, histB, histW,
                   mainpc, frame_num, frames>>

NextMain ==
    \/ MainStartThread
    \/ TkMainloop
    \/ LoopOrigin
    \/ LoopScene
    \/ LoopRender
    \/ LoopUpdBlueTrail
    \/ LoopUpdBlueP
    \/ LoopUpdBlueV
    \/ LoopUpdWhiteTrail
    \/ LoopUpdWhiteP
    \/ LoopUpdWhiteV
    \/ LoopReturn
    \/ RunIncrement
    \/ RunClear

\* The program as main() runs it.
SpecMain == InitMain /\ [][NextMain]_vars

\* main() over a universe whose attributes were assigned before it starts.
SpecRun == InitRun /\ [][NextMain]_vars

---------------------------------------------------------------------------
(* Properties of the Universe *)

\* floor(2.0 / dt)
TrailBound(dt) == (2 * dt.d) \div dt.n

\* The last k entries of h.
LastK(h, k) == SubSeq(h, Len(h) - k + 1, Len(h))

\* Every update call so far was given the same delta_t.
ConstantDt == \A i \in 1..Len(dts) : dts[i] = dts[1]

\* An update call was made and returned (this step, for an action formula).
UpdateReturned == dts' # dts /\ universe'.err = "none"

\* C1: with a constant time step dt and K = floor(2.0/dt), after N > K update
\* calls each satellite's trail has length exactly K and holds that
\* satellite's K most recent pre-update positions, oldest first.
C1_TrailIsLastK ==
    (universe.err = "none" /\ Len(dts) > 0 /\ ConstantDt /\ Len(dts) > TrailBound(dts[1])) =>
        LET K == TrailBound(dts[1])
        IN  /\ Len(universe.blue_trail) = K
            /\ TrailVals(universe, universe.blue_trail) = LastK(histB, K)
            /\ Len(universe.white_trail) = K
            /\ TrailVals(universe, universe.white_trail) = LastK(histW, K)

\* Four calls with dt = 1.0 (K = 2): two entries were evicted, two are kept.
C1_Witness ==
    /\ universe.err = "none" /\ ConstantDt /\ Len(dts) = 4
    /\ dts[1] = [n |-> 1, d |-> 1]
    /\ Len(universe.blue_trail) = 2 /\ Len(histB) = 4
    /\ histB[1] # histB[3]

\* C2: whenever Universe.scene returns, after any number of update calls, the
\* Scene is exactly three Circles in the order anchor, satellite-1,
\* satellite-2, each with its body's current position as centre and its
\* body's radius; there is no Curve in it.
C2_SceneIsThreeCircles ==
    [][ scene' # scene =>
            SceneVals(scene', universe'.heap) =
                << [kind |-> "Circle", r |-> universe.yellow_r,
                    o |-> Val(universe, universe.yellow_p)],
                   [kind |-> "Circle", r |-> universe.blue_r,
                    o |-> Val(universe, universe.blue_p)],
                   [kind |-> "Circle", r |-> universe.white_r,
                    o |-> Val(universe, universe.white_p)] >>
      ]_vars

\* A Scene taken after two update calls, showing the positions of that moment.
C2_Witness ==
    /\ Len(scene) = 3 /\ Len(dts) >= 2
    /\ Len(universe.blue_trail) > 0
    /\ SceneVals(scene, universe.heap)[2].o = Val(universe, universe.blue_p)
    /\ SceneVals(scene, universe.heap)[3].o = Val(universe, universe.white_p)
    /\ Val(universe, universe.blue_p) # histB[1]

\* C3: in every update(dt) call that returns, each satellite's new position is
\* its old position plus its old velocity times dt, and its new velocity is
\* its old velocity minus dt times the attraction evaluated at its new
\* position (and, for satellite-2, at satellite-1's new position).
C3_PositionThenVelocity ==
    [][ UpdateReturned =>
            LET dt  == dts'[Len(dts')]
                yp  == Val(universe, universe.yellow_p)
                bp1 == VAdd(Val(universe, universe.blue_p), VMul(Val(universe, universe.blue_v), dt))
                wp1 == VAdd(Val(universe, universe.white_p), VMul(Val(universe, universe.white_v), dt))
            IN  /\ Val(universe', universe'.blue_p) = bp1
                /\ Val(universe', universe'.blue_v) =
                       VSub(Val(universe, universe.blue_v), GravTerm(universe.yellow_m, VSub(bp1, yp), dt))
                /\ Val(universe', universe'.white_p) = wp1
                /\ Val(universe', universe'.white_v) =
                       VSub(VSub(Val(universe, universe.white_v),
                                 GravTerm(universe.yellow_m, VSub(wp1, yp), dt)),
                            GravTerm(universe.blue_m, VSub(wp1, bp1), dt))
      ]_vars

\* An update call has returned for which the attraction at the old and at the
\* new position of satellite-1 differ.
C3_Witness ==
    /\ universe.err = "none" /\ Len(dts) >= 1
    /\ LET dt == dts[Len(dts)]
           yp == Val(universe, universe.yellow_p)
       IN  /\ VAbs(VSub(histB[Len(histB)], yp)) > 0
           /\ GravTerm(universe.yellow_m, VSub(histB[Len(histB)], yp), dt)
                  # GravTerm(universe.yellow_m, VSub(Val(universe, universe.blue_p), yp), dt)

\* C7: no update call, returning or raising, changes the anchor's position
\* or the mass or radius of any of the three bodies.
C7_AnchorFixed ==
    [][ dts' # dts =>
            /\ Val(universe', universe'.yellow_p) = Val(universe, universe.yellow_p)
            /\ universe'.yellow_m = universe.yellow_m /\ universe'.yellow_r = universe.yellow_r
            /\ universe'.blue_m = universe.blue_m /\ universe'.blue_r = universe.blue_r
            /\ universe'.white_m = universe.white_m /\ universe'.white_r = universe.white_r
      ]_vars

\* Two update calls have moved both satellites; the anchor is where
\* Universe.__init__ put it.
C7_Witness ==
    /\ Len(dts) >= 2 /\ universe.err = "none"
    /\ Val(universe, universe.blue_p) # histB[1] /\ Val(universe, universe.white_p) # histW[1]
    /\ Val(universe, universe.yellow_p) = Vector(0, 0)

\* The fields of a Universe, by value.
FieldVals(un) ==
    [un EXCEPT !.heap = <<>>, !.next = 0,
               !.yellow_p = Val(un, @), !.blue_p = Val(un, @), !.blue_v = Val(un, @),
               !.white_p = Val(un, @), !.white_v = Val(un, @),
               !.blue_trail = TrailVals(un, @), !.white_trail = TrailVals(un, @)]

\* C8: a Scene returned by Universe.scene keeps showing what it showed when it
\* was returned, whatever update calls follow, and computing it changes no
\* field of the Universe.
C8_SceneIsSnapshot ==
    /\ [](scene # <<>> => SceneVals(scene, universe.heap) = sceneAt.vals)
    /\ [][scene' # scene => FieldVals(universe') = FieldVals(universe)]_vars

\* A Scene is held and update calls since it was returned have moved both
\* satellites away from the centres it shows.
C8_Witness ==
    /\ Len(scene) = 3 /\ Len(dts) >= 2
    /\ SceneVals(scene, universe.heap)[2].o # Val(universe, universe.blue_p)
    /\ SceneVals(scene, universe.heap)[3].o # Val(universe, universe.white_p)
    /\ SceneVals(scene, universe.heap)[2].o # histB[1]

\* C9: after every update(dt) call that returns, whatever the time steps of the
\* calls so far, each trail has at most floor(2.0/dt) entries for that
\* call's dt, and holds the most recent pre-update positions, oldest first.
C9_TrailBoundedSuffix ==
    (universe.err = "none" /\ Len(dts) > 0) =>
        /\ Len(universe.blue_trail) <= TrailBound(dts[Len(dts)])
        /\ TrailVals(universe, universe.blue_trail) = LastK(histB, Len(universe.blue_trail))
        /\ Len(universe.white_trail) <= TrailBound(dts[Len(dts)])
        /\ TrailVals(universe, universe.white_trail) = LastK(histW, Len(universe.white_trail))

\* Three calls with dt = 0.05 filled the trail with three entries; a call with
\* dt = 1.0 (bound 2) appended a fourth and evicted two in that one call.
C9_Witness ==
    /\ universe.err = "none" /\ Len(dts) = 4
    /\ dts[1] = DEFAULT_DELTA_T /\ dts[2] = DEFAULT_DELTA_T /\ dts[3] = DEFAULT_DELTA_T
    /\ dts[4] = [n |-> 1, d |-> 1]
    /\ Len(universe.blue_trail) = 2 /\ Len(universe.white_trail) = 2

\* Two Universes agree on the anchor's and on satellite-1's state.
AgreeBlue(a, b) ==
    /\ Val(a, a.yellow_p) = Val(b, b.yellow_p) /\ a.yellow_m = b.yellow_m
    /\ Val(a, a.blue_p) = Val(b, b.blue_p) /\ Val(a, a.blue_v) = Val(b, b.blue_v)
    /\ a.blue_m = b.blue_m
    /\ TrailVals(a, a.blue_trail) = TrailVals(b, b.blue_trail)

\* Two Universes agree on the anchor's and on satellite-2's position and velocity.
AgreeWhite(a, b) ==
    /\ Val(a, a.yellow_p) = Val(b, b.yellow_p) /\ a.yellow_m = b.yellow_m
    /\ Val(a, a.white_p) = Val(b, b.white_p) /\ Val(a, a.white_v) = Val(b, b.white_v)

\* The term of satellite-1 in satellite-2's velocity update, after the update.
BlueTerm(un, dt) ==
    GravTerm(un.blue_m, VSub(Val(un, un.white_p), Val(un, un.blue_p)), dt)

\* C10: two Universes that agree on the anchor and on satellite-1, whatever
\* satellite-2's position, velocity and mass in each, still agree on
\* satellite-1's position, velocity and trail after the same update call;
\* two that agree on the anchor and on satellite-2 get satellite-2
\* velocities that differ by the difference of their satellite-1 terms.
C10_BlueIgnoresWhite ==
    [][ dts' # dts =>
            /\ AgreeBlue(universe, twin) => AgreeBlue(universe', twin')
            /\ (AgreeWhite(universe, twin) /\ universe'.err = "none" /\ twin'.err = "none") =>
                   VSub(Val(universe', universe'.white_v), Val(twin', twin'.white_v)) =
                       VSub(BlueTerm(twin', dts'[Len(dts')]), BlueTerm(universe', dts'[Len(dts')]))
      ]_vars

\* Two Universes that differ in satellite-2's position, velocity and mass
\* have had three update calls and agree on satellite-1.
C10_Witness ==
    /\ Len(dts) >= 3 /\ universe.err = "none" /\ twin.err = "none"
    /\ AgreeBlue(universe, twin)
    /\ Val(universe, universe.white_p) # Val(twin, twin.white_p)
    /\ Val(universe, universe.white_v) # Val(twin, twin.white_v)
    /\ universe.white_m # twin.white_m
    /\ Val(universe, universe.blue_p) # histB[1]

---------------------------------------------------------------------------
(* Properties of the driver *)

\* C4: in the program as main() runs it, every Scene is built from the body
\* positions of a moment between two update calls: never from a state in
\* which an update has been applied to some of the fields only.
C4_NoTornScene ==
    scene # <<>> =>
        /\ sceneAt.vals[1].o = sceneAt.base.yellow
        /\ sceneAt.vals[2].o = sceneAt.base.blue
        /\ sceneAt.vals[3].o = sceneAt.base.white

\* The background thread is inside its second update call, satellite-1 moved
\* and satellite-2 not yet, while the Tk event loop runs on the main thread
\* and has repainted the canvas; the Scene of this frame is held.
C4_Witness ==
    /\ mainpc = "mainloop" /\ pc = "upd_wt" /\ frames = 1
    /\ ~canvas.dirty
    /\ Len(scene) = 3
    /\ Val(universe, universe.blue_p) # stable.blue
    /\ Val(universe, universe.white_p) = stable.white

\* C5: run() performs at most MAX_FRAMES = 2400 frames (loop() calls that
\* render the scene and update the universe).
C5_AtMostMaxFrames == frames <= MAX_FRAMES

\* The statement of update that divides by the distance to an attractor is
\* next, and the satellite's new position is that attractor's position.
OnAttractor ==
    \/ /\ pc = "upd_bv"
       /\ Val(universe, universe.blue_p) = Val(universe, universe.yellow_p)
    \/ /\ pc = "upd_wv"
       /\ \/ Val(universe, universe.white_p) = Val(universe, universe.yellow_p)
          \/ Val(universe, universe.white_p) = Val(universe, universe.blue_p)

\* C6: when a satellite's new position is the position of a body attracting
\* it, update raises ZeroDivisionError there, the error leaves loop and
\* run, and the background thread runs no further statement or frame.
C6_CoincidenceStopsLoop ==
    [][ /\ (OnAttractor /\ pc' # pc) =>
               /\ pc' = "crashed"
               /\ universe'.err = "ZeroDivisionError"
               /\ frames' = frames
        /\ pc = "crashed" =>
               /\ pc' = "crashed"
               /\ universe' = universe /\ frames' = frames /\ frame_num' = frame_num
               /\ canvas'.items = canvas.items
               /\ scene' = scene
      ]_vars

\* The background thread has ended in its first frame by ZeroDivisionError
\* with satellite-2 on satellite-1, and the Tk event loop has run since.
C6_Witness ==
    /\ pc = "crashed" /\ universe.err = "ZeroDivisionError"
    /\ Val(universe, universe.white_p) = Val(universe, universe.blue_p)
    /\ Val(universe, universe.white_p) # Val(universe, universe.yellow_p)
    /\ Len(universe.white_trail) = 1
    /\ mainpc = "mainloop" /\ ~canvas.dirty

====
